---- MODULE Spec2Model ----
(***************************************************************************)
(* Model of the Bedrock model activator: main() in src/src/main.py and     *)
(* BedrockModelActivator in src/src/bedrock_model_activator.py.            *)
(*                                                                         *)
(* A Python dict is a TLA+ function whose DOMAIN is the set of keys that   *)
(* are present, so d.get(k, default) is Get(d, k, default).  A remote call *)
(* of the boto3 client either returns a response dict or raises; the code  *)
(* distinguishes botocore's ClientError (an error response of the service) *)
(* from every other exception (botocore's transport errors, such as        *)
(* EndpointConnectionError, derive from BotoCoreError, not ClientError).   *)
(***************************************************************************)
EXTENDS Integers, Sequences, FiniteSets, TLC

VARIABLES
    pc,                     \* position of main() / activate_all_models()
    all_models,             \* activate_all_models: all_models
    filtered_models,        \* activate_all_models: filtered_models
    accessible_models,      \* check_model_access_status: accessible_models
    models_needing_access,  \* check_model_access_status: models_needing_access
    ci,                     \* index of the classifier loop (1-based)
    ri,                     \* index of the remediation loop (1-based)
    offers,                 \* activate_all_models: offers of the current model
    activation_results,     \* activate_all_models: activation_results
    results,                \* main: results (<<>> while unbound, else <<report>>)
    exc,                    \* the exception propagating to main ("none" if none)
    stdout,                 \* what main / print_summary printed
    calls,                  \* history: the remote calls issued, in order
    reply                   \* history: outcome of the most recent remote call

vars == <<pc, all_models, filtered_models, accessible_models,
          models_needing_access, ci, ri, offers, activation_results,
          results, exc, stdout, calls, reply>>

----------------------------------------------------------------------------
(* Bounds of the model *)

MaxModels == 2
MaxOffers == 2
MaxTypes == 2

----------------------------------------------------------------------------
(* Python helpers *)

\* dict.get(key, default)
Get(d, key, default) == IF key \in DOMAIN d THEN d[key] ELSE default

\* Python's None, and the truth value of a string or None
None == "<None>"
Falsy(x) == x = None \/ x = ""

\* the strictly increasing sequences over the set of integers S
RECURSIVE Ascending(_)
Ascending(S) ==
    IF S = {} THEN {<<>>}
    ELSE LET max == CHOOSE x \in S : \A y \in S : y <= x
             rest == Ascending(S \ {max})
         IN  rest \cup {Append(s, max) : s \in rest}

\* the sequences over S of length at most n
RECURSIVE SeqsUpTo(_, _)
SeqsUpTo(S, n) ==
    IF n = 0 THEN {<<>>}
    ELSE SeqsUpTo(S, n - 1) \cup
         {Append(s, x) : s \in {t \in SeqsUpTo(S, n - 1) : Len(t) = n - 1}, x \in S}

----------------------------------------------------------------------------
(* The remote service: what each call of the boto3 client can produce.     *)
(* Every response dict of boto3 carries the key ResponseMetadata.          *)

ModelIds == 1..MaxModels

ClientError == "ClientError"
OtherError == "EndpointConnectionError"
Errors == {[kind |-> ClientError], [kind |-> OtherError]}
Ok(response) == [kind |-> "ok", response |-> response]
NoReply == [kind |-> "none"]
EmptyResponse == [ResponseMetadata |-> "md"]

\* ModelSummary dicts of the workflow specification: two that the filter
\* keeps, two that it drops, with and without modelName and
\* inferenceTypesSupported.
ModelSummaries(id) ==
    { [modelId |-> id, modelName |-> "Titan", inferenceTypesSupported |-> <<"ON_DEMAND">>],
      [modelId |-> id, inferenceTypesSupported |-> <<"PROVISIONED", "INFERENCE_PROFILE">>],
      [modelId |-> id, modelName |-> "Titan", inferenceTypesSupported |-> <<"PROVISIONED">>],
      [modelId |-> id, modelName |-> "Titan"] }

\* the lists of model summaries drawn from `summaries` in which every model
\* id occurs at most once (the ids in increasing order)
CatalogsOf(summaries) ==
    UNION {{c \in [1..Len(ids) -> summaries] :
              \A i \in 1..Len(ids) : c[i].modelId = ids[i]} :
           ids \in Ascending(ModelIds)}

Catalogs == CatalogsOf(UNION {ModelSummaries(id) : id \in ModelIds})

\* inputs of filter_on_demand_models taken on its own: every list of at most
\* MaxTypes inference types, or no inferenceTypesSupported at all
InferenceTypes == {"ON_DEMAND", "INFERENCE_PROFILE", "PROVISIONED"}

FilterSummaries(id) ==
    {[modelId |-> id, inferenceTypesSupported |-> t] :
        t \in SeqsUpTo(InferenceTypes, MaxTypes)}
    \cup {[modelId |-> id, modelName |-> "Titan"]}

FilterInputs == CatalogsOf(UNION {FilterSummaries(id) : id \in ModelIds})

ListModelsOutcomes ==
    {Ok([ResponseMetadata |-> "md", modelSummaries |-> c]) : c \in Catalogs}
    \cup {Ok(EmptyResponse)} \cup Errors

AgreementStatuses == {"AVAILABLE", "NOT_AVAILABLE", "UNKNOWN"}
AuthorizationStatuses == {"AUTHORIZED", "NOT_AUTHORIZED"}

\* agreementAvailability: with a status, or without one
AgreementAvailabilities ==
    {[status |-> s] : s \in AgreementStatuses} \cup {[errorMessage |-> "msg"]}

AvailabilityResponses ==
    {[ResponseMetadata |-> "md", agreementAvailability |-> a, authorizationStatus |-> z] :
        a \in AgreementAvailabilities, z \in AuthorizationStatuses}
    \cup {[ResponseMetadata |-> "md", agreementAvailability |-> a] :
        a \in AgreementAvailabilities}
    \cup {[ResponseMetadata |-> "md", authorizationStatus |-> z] :
        z \in AuthorizationStatuses}

AvailabilityOutcomes == {Ok(r) : r \in AvailabilityResponses} \cup Errors

Tokens == {"tok-a", "tok-b"}
Offers == {[offerId |-> "o", offerToken |-> t] : t \in Tokens \cup {""}}
          \cup {[offerId |-> "o"]}

OffersOutcomes ==
    {Ok([ResponseMetadata |-> "md", offers |-> s]) : s \in SeqsUpTo(Offers, MaxOffers)}
    \cup {Ok(EmptyResponse)} \cup Errors

AgreementOutcomes == {Ok(EmptyResponse)} \cup Errors

----------------------------------------------------------------------------
(* Exceptions *)

\* `except ClientError` catches an outcome that raised ClientError only
Raised(out) == out.kind # "ok"
CaughtAsClientError(out) == out.kind = ClientError

\* an exception leaves activate_all_models: its frame is discarded and
\* control reaches the except clause of main
Raise(e) ==
    /\ pc' = "except"
    /\ exc' = e
    /\ all_models' = <<>>
    /\ filtered_models' = <<>>
    /\ accessible_models' = <<>>
    /\ models_needing_access' = <<>>
    /\ ci' = 0
    /\ ri' = 0
    /\ offers' = <<>>
    /\ activation_results' = <<>>
    /\ UNCHANGED <<results, stdout>>

----------------------------------------------------------------------------
(* Stage 1: list_foundation_models *)

Init ==
    /\ pc = "list"
    /\ all_models = <<>>
    /\ filtered_models = <<>>
    /\ accessible_models = <<>>
    /\ models_needing_access = <<>>
    /\ ci = 0
    /\ ri = 0
    /\ offers = <<>>
    /\ activation_results = <<>>
    /\ results = <<>>
    /\ exc = "none"
    /\ stdout = <<>>
    /\ calls = <<>>
    /\ reply = NoReply

\* mutant: ClientError is logged and an empty list returned, as
\* get_agreement_offers does
ListFoundationModels_Swallow ==
    /\ pc = "list"
    /\ \E out \in ListModelsOutcomes :
        /\ calls' = Append(calls, [op |-> "listModels"])
        /\ reply' = out
        /\ IF Raised(out) /\ ~CaughtAsClientError(out)
           THEN Raise(out.kind)
           ELSE /\ all_models' = IF Raised(out) THEN <<>>
                                 ELSE Get(out.response, "modelSummaries", <<>>)
                /\ pc' = "filter"
                /\ UNCHANGED <<filtered_models, accessible_models,
                               models_needing_access, ci, ri, offers,
                               activation_results, results, exc, stdout>>

ListFoundationModels ==
    /\ pc = "list"
    /\ \E out \in ListModelsOutcomes :
        /\ calls' = Append(calls, [op |-> "listModels"])
        /\ reply' = out
        /\ IF Raised(out)
           THEN Raise(out.kind)
           ELSE /\ all_models' = Get(out.response, "modelSummaries", <<>>)
                /\ pc' = "filter"
                /\ UNCHANGED <<filtered_models, accessible_models,
                               models_needing_access, ci, ri, offers,
                               activation_results, results, exc, stdout>>

----------------------------------------------------------------------------
(* Stage 2: filter_on_demand_models *)

\* mutant: INFERENCE_PROFILE is forgotten
SupportsOnDemand_OnlyOnDemand(model) ==
    LET inference_types == Get(model, "inferenceTypesSupported", <<>>)
    IN  \E i \in 1..Len(inference_types) : inference_types[i] = "ON_DEMAND"

SupportsOnDemand(model) ==
    LET inference_types == Get(model, "inferenceTypesSupported", <<>>)
    IN  \E i \in 1..Len(inference_types) :
            inference_types[i] \in {"ON_DEMAND", "INFERENCE_PROFILE"}

RECURSIVE FilterLoop(_, _, _)
FilterLoop(models, i, filtered) ==
    IF i > Len(models) THEN filtered
    ELSE FilterLoop(models, i + 1,
                    IF SupportsOnDemand(models[i])
                    THEN Append(filtered, models[i])
                    ELSE filtered)

filter_on_demand_models(models) == FilterLoop(models, 1, <<>>)

FilterOnDemandModels ==
    /\ pc = "filter"
    /\ filtered_models' = filter_on_demand_models(all_models)
    /\ pc' = "check"
    /\ ci' = 1
    /\ UNCHANGED <<all_models, accessible_models, models_needing_access, ri,
                   offers, activation_results, results, exc, stdout, calls,
                   reply>>

----------------------------------------------------------------------------
(* Stage 3: check_model_access_status *)

\* agreement_status of a response of get_foundation_model_availability
agreement_status(response) ==
    Get(Get(response, "agreementAvailability", <<>>), "status", "UNKNOWN")

authorization_status(response) ==
    Get(response, "authorizationStatus", "UNKNOWN")

\* mutant: every status other than AVAILABLE needs access
NeedsAccess_UnlessAvailable(out) ==
    IF Raised(out)
    THEN CaughtAsClientError(out)
    ELSE agreement_status(out.response) # "AVAILABLE"

\* mutant: a model that is not authorized needs access as well
NeedsAccess_OrNotAuthorized(out) ==
    IF Raised(out)
    THEN CaughtAsClientError(out)
    ELSE \/ agreement_status(out.response) = "NOT_AVAILABLE"
         \/ authorization_status(out.response) = "NOT_AUTHORIZED"

\* the branch of one iteration that appends to models_needing_access:
\* the query returned NOT_AVAILABLE, or it raised ClientError
NeedsAccess(out) ==
    IF Raised(out)
    THEN CaughtAsClientError(out)
    ELSE agreement_status(out.response) = "NOT_AVAILABLE"

\* one iteration of `for model in models`
CheckModelAccess ==
    /\ pc = "check"
    /\ ci <= Len(filtered_models)
    /\ LET model == filtered_models[ci]
           model_id == model.modelId
       IN \E out \in AvailabilityOutcomes :
            /\ calls' = Append(calls, [op |-> "getAvailability", modelId |-> model_id])
            /\ reply' = out
            /\ IF Raised(out) /\ ~CaughtAsClientError(out)
               THEN Raise(out.kind)
               ELSE /\ IF NeedsAccess(out)
                       THEN /\ models_needing_access' = Append(models_needing_access, model)
                            /\ UNCHANGED accessible_models
                       ELSE /\ accessible_models' = Append(accessible_models, model)
                            /\ UNCHANGED models_needing_access
                    /\ ci' = ci + 1
                    /\ UNCHANGED <<pc, all_models, filtered_models, ri, offers,
                                   activation_results, results, exc, stdout>>

\* mutant: filtered_models counts the whole catalog
NewActivationResults_CountsCatalog ==
    [total_models |-> Len(all_models),
     filtered_models |-> Len(all_models),
     already_accessible |-> Len(accessible_models),
     attempted_activation |-> Len(models_needing_access),
     successful_activations |-> 0,
     failed_activations |-> 0,
     activation_details |-> <<>>]

\* the report as activate_all_models creates it
NewActivationResults ==
    [total_models |-> Len(all_models),
     filtered_models |-> Len(filtered_models),
     already_accessible |-> Len(accessible_models),
     attempted_activation |-> Len(models_needing_access),
     successful_activations |-> 0,
     failed_activations |-> 0,
     activation_details |-> <<>>]

\* check_model_access_status returns; activate_all_models creates the report
CheckModelAccessReturn ==
    /\ pc = "check"
    /\ ci > Len(filtered_models)
    /\ activation_results' = <<NewActivationResults>>
    /\ pc' = "loop"
    /\ ri' = 1
    /\ UNCHANGED <<all_models, filtered_models, accessible_models,
                   models_needing_access, ci, offers, results, exc, stdout,
                   calls, reply>>

----------------------------------------------------------------------------
(* Stage 4: the remediation loop of activate_all_models *)

\* get_agreement_offers: the offers, or [] when the call raised ClientError
get_agreement_offers(out) ==
    IF Raised(out) THEN <<>> ELSE Get(out.response, "offers", <<>>)

\* mutant: the loop walks models_needing_access from its end
CurrentModel_Reversed ==
    models_needing_access[Len(models_needing_access) - ri + 1]

\* mutant: the loop walks filtered_models
CurrentModel_FromFiltered == filtered_models[ri]

\* `for model in models_needing_access`: the model of the current iteration
CurrentModel == models_needing_access[ri]

GetAgreementOffers ==
    /\ pc = "loop"
    /\ ri <= Len(models_needing_access)
    /\ LET model_id == CurrentModel.modelId
       IN \E out \in OffersOutcomes :
            /\ calls' = Append(calls, [op |-> "listOffers", modelId |-> model_id])
            /\ reply' = out
            /\ IF Raised(out) /\ ~CaughtAsClientError(out)
               THEN Raise(out.kind)
               ELSE /\ offers' = get_agreement_offers(out)
                    /\ pc' = "agree"
                    /\ UNCHANGED <<all_models, filtered_models, accessible_models,
                                   models_needing_access, ci, ri,
                                   activation_results, results, exc, stdout>>

\* mutant: the token of the last offer is read
OfferToken_LastOffer(offs) == Get(offs[Len(offs)], "offerToken", None)

\* the offer token the loop body reads: offers[0].get('offerToken')
OfferToken(offs) == Get(offs[1], "offerToken", None)

Failed(model_id, model_name, reason) ==
    [model_id |-> model_id, model_name |-> model_name,
     status |-> "failed", reason |-> reason]

Succeeded(model_id, model_name, offer_token) ==
    [model_id |-> model_id, model_name |-> model_name,
     status |-> "success", offer_token |-> offer_token]

\* mutant: a failure is appended but not counted
Record_FailureNotCounted(res, detail) ==
    [res EXCEPT
        !.successful_activations = @ + (IF detail.status = "success" THEN 1 ELSE 0),
        !.activation_details = Append(@, detail)]

\* activation_results after one more outcome has been recorded
Record(res, detail) ==
    [res EXCEPT
        !.successful_activations = @ + (IF detail.status = "success" THEN 1 ELSE 0),
        !.failed_activations = @ + (IF detail.status = "success" THEN 0 ELSE 1),
        !.activation_details = Append(@, detail)]

\* the rest of the loop body, once offers is bound
Continue(detail) ==
    /\ activation_results' = <<Record(activation_results[1], detail)>>
    /\ ri' = ri + 1
    /\ offers' = <<>>
    /\ pc' = "loop"
    /\ UNCHANGED <<all_models, filtered_models, accessible_models,
                   models_needing_access, ci, results, exc, stdout>>

CreateModelAgreement ==
    /\ pc = "agree"
    /\ LET model == CurrentModel
           model_id == model.modelId
           model_name == Get(model, "modelName", "Unknown")
       IN IF offers = <<>>
          THEN /\ Continue(Failed(model_id, model_name, "no_offers_available"))
               /\ UNCHANGED <<calls, reply>>
          ELSE IF Falsy(OfferToken(offers))
          THEN /\ Continue(Failed(model_id, model_name, "no_offer_token"))
               /\ UNCHANGED <<calls, reply>>
          ELSE \E out \in AgreementOutcomes :
                /\ calls' = Append(calls, [op |-> "acceptOffer", modelId |-> model_id,
                                           offerToken |-> OfferToken(offers)])
                /\ reply' = out
                /\ IF Raised(out) /\ ~CaughtAsClientError(out)
                   THEN Raise(out.kind)
                   ELSE IF ~Raised(out)
                   THEN Continue(Succeeded(model_id, model_name, OfferToken(offers)))
                   ELSE Continue(Failed(model_id, model_name, "agreement_creation_failed"))

\* `return activation_results`: main binds results
ActivateAllModelsReturn ==
    /\ pc = "loop"
    /\ ri > Len(models_needing_access)
    /\ results' = activation_results
    /\ pc' = "print"
    /\ UNCHANGED <<all_models, filtered_models, accessible_models,
                   models_needing_access, ci, ri, offers, activation_results,
                   exc, stdout, calls, reply>>

----------------------------------------------------------------------------
(* main: print_summary, and the except clause *)

Counter(label, value) == [line |-> "counter", label |-> label, value |-> value]

RECURSIVE DetailLines(_, _)
DetailLines(details, i) ==
    IF i > Len(details) THEN <<>>
    ELSE LET detail == details[i]
             head == <<[line |-> "detail", ok |-> detail.status = "success",
                        model_name |-> detail.model_name,
                        model_id |-> detail.model_id]>>
             why == IF detail.status = "failed"
                    THEN <<[line |-> "reason", reason |-> detail.reason]>>
                    ELSE <<>>
         IN head \o why \o DetailLines(details, i + 1)

print_summary(res) ==
    << [line |-> "title"],
       Counter("Total models found", res.total_models),
       Counter("Filtered models", res.filtered_models),
       Counter("Already accessible", res.already_accessible),
       Counter("Attempted activation", res.attempted_activation),
       Counter("Successful activations", res.successful_activations),
       Counter("Failed activations", res.failed_activations) >>
    \o (IF res.activation_details # <<>>
        THEN <<[line |-> "details"]>> \o DetailLines(res.activation_details, 1)
        ELSE <<>>)

PrintSummary ==
    /\ pc = "print"
    /\ stdout' = stdout \o print_summary(results[1])
    /\ pc' = "done"
    /\ UNCHANGED <<all_models, filtered_models, accessible_models,
                   models_needing_access, ci, ri, offers, activation_results,
                   results, exc, calls, reply>>

\* except Exception as e: print(f"Error: {e}")
MainExcept ==
    /\ pc = "except"
    /\ stdout' = Append(stdout, [line |-> "error", error |-> exc])
    /\ pc' = "done"
    /\ UNCHANGED <<all_models, filtered_models, accessible_models,
                   models_needing_access, ci, ri, offers, activation_results,
                   results, exc, calls, reply>>

----------------------------------------------------------------------------
(* The workflow specification: one run of main *)

Next ==
    \/ ListFoundationModels
    \/ FilterOnDemandModels
    \/ CheckModelAccess
    \/ CheckModelAccessReturn
    \/ GetAgreementOffers
    \/ CreateModelAgreement
    \/ ActivateAllModelsReturn
    \/ PrintSummary
    \/ MainExcept

Spec == Init /\ [][Next]_vars

----------------------------------------------------------------------------
(* The filter specification: filter_on_demand_models applied to every       *)
(* input of FilterInputs                                                   *)

InitFilter ==
    /\ pc = "filter"
    /\ all_models \in FilterInputs
    /\ filtered_models = <<>>
    /\ accessible_models = <<>>
    /\ models_needing_access = <<>>
    /\ ci = 0
    /\ ri = 0
    /\ offers = <<>>
    /\ activation_results = <<>>
    /\ results = <<>>
    /\ exc = "none"
    /\ stdout = <<>>
    /\ calls = <<>>
    /\ reply = NoReply

NextFilter == FilterOnDemandModels

SpecFilter == InitFilter /\ [][NextFilter]_vars

----------------------------------------------------------------------------
(* Vocabulary of the properties *)

Range(s) == {s[i] : i \in 1..Len(s)}

\* the model ids of a list of model summaries, in order
ModelIdsOf(models) == [i \in 1..Len(models) |-> models[i].modelId]

\* the model ids of a list of recorded outcomes, in order
DetailIdsOf(details) == [i \in 1..Len(details) |-> details[i].model_id]

\* s is a subsequence of t: the elements of s occur in t in the same order
RECURSIVE IsSubSeq(_, _)
IsSubSeq(s, t) ==
    IF s = <<>> THEN TRUE
    ELSE IF t = <<>> THEN FALSE
    ELSE IF Head(s) = Head(t) THEN IsSubSeq(Tail(s), Tail(t))
    ELSE IsSubSeq(s, Tail(t))

LastCall == calls[Len(calls)]
LastCallIs(op) == calls # <<>> /\ LastCall.op = op

\* the most recent remote call was an availability query that raised
AvailabilityRaised == LastCallIs("getAvailability") /\ Raised(reply)

\* the most recent remote call was an availability query that returned
AvailabilityReturned == LastCallIs("getAvailability") /\ reply.kind = "ok"

\* the status the availability response carries, "absent" if it carries none
ReportedStatus(response) ==
    IF "agreementAvailability" \in DOMAIN response
       /\ "status" \in DOMAIN response.agreementAvailability
    THEN response.agreementAvailability.status
    ELSE "absent"

\* the model of the most recent call is the one appended last to `models`
PlacedLastIn(models) ==
    models # <<>> /\ models[Len(models)].modelId = LastCall.modelId

PlacedIn(models) == LastCall.modelId \in Range(ModelIdsOf(models))

----------------------------------------------------------------------------
(* C1 *)

\* C1: once the catalog listing has succeeded, no outcome of listOffers or
\* acceptOffer (any transport or service error included) aborts the run, and
\* the report that is returned holds exactly one outcome per model of
\* models_needing_access, in the classifier's order.
C1_PartialFailureIsolation ==
    /\ ~(pc \in {"except", "done"} /\ exc # "none"
         /\ (LastCallIs("listOffers") \/ LastCallIs("acceptOffer")))
    /\ results # <<>> =>
          DetailIdsOf(results[1].activation_details) = ModelIdsOf(models_needing_access)

----------------------------------------------------------------------------
(* C2 *)

\* C2: a model whose availability query raises (any transport or service
\* error) is appended to models_needing_access, never to accessible_models,
\* the error does not leave check_model_access_status, and the loop goes on.
C2_ConservativeDefault ==
    AvailabilityRaised =>
        /\ exc = "none"
        /\ pc \in {"check", "loop"}
        /\ PlacedLastIn(models_needing_access)
        /\ ~PlacedIn(accessible_models)

----------------------------------------------------------------------------
(* C3 *)

\* C3: at every point of the remediation loop successful_activations +
\* failed_activations = Len(activation_details) = the number of models of
\* models_needing_access processed so far, and in the report returned the
\* sum equals attempted_activation.
C3_RemediationTotals ==
    /\ activation_results # <<>> =>
          LET r == activation_results[1]
          IN  /\ r.successful_activations + r.failed_activations
                    = Len(r.activation_details)
              /\ Len(r.activation_details) = ri - 1
    /\ results # <<>> =>
          LET r == results[1]
          IN  r.successful_activations + r.failed_activations
                = r.attempted_activation

\* a report with a success and a failure has been returned
C3_Witness ==
    /\ results # <<>>
    /\ results[1].successful_activations >= 1
    /\ results[1].failed_activations >= 1

----------------------------------------------------------------------------
(* C4 *)

\* the outcome the first failing step decides, from the outcome of listOffers
\* and the outcome of acceptOffer
C4_Outcome(model, offersOut, acceptOut) ==
    LET name == IF "modelName" \in DOMAIN model THEN model.modelName ELSE "Unknown"
        offs == IF offersOut.kind = "ok" /\ "offers" \in DOMAIN offersOut.response
                THEN offersOut.response.offers
                ELSE <<>>
        failed(reason) == [model_id |-> model.modelId, model_name |-> name,
                           status |-> "failed", reason |-> reason]
    IN  IF offs = <<>> THEN failed("no_offers_available")
        ELSE IF "offerToken" \notin DOMAIN offs[1] \/ offs[1].offerToken = ""
        THEN failed("no_offer_token")
        ELSE IF acceptOut.kind # "ok" THEN failed("agreement_creation_failed")
        ELSE [model_id |-> model.modelId, model_name |-> name,
              status |-> "success", offer_token |-> offs[1].offerToken]

\* C4: for every model of models_needing_access the loop body records the
\* outcome of the first failing step: no_offers_available when listOffers
\* errors or returns no offer, else no_offer_token when the offer at index 0
\* has no token or an empty one, else agreement_creation_failed when
\* acceptOffer fails, else success with the token of the offer at index 0.
\* (In a step from pc = "agree", reply is the outcome of listOffers and
\* reply' the outcome of acceptOffer, if it is called.)
C4_RemediationOutcome ==
    [][/\ (pc = "loop" /\ calls' # calls) => pc' = "agree"
       /\ pc = "agree" =>
            /\ activation_results' # <<>>
            /\ activation_results'[1].activation_details =
                 Append(activation_results[1].activation_details,
                        C4_Outcome(models_needing_access[ri], reply, reply'))
      ]_vars

----------------------------------------------------------------------------
(* C5 *)

\* list_foundation_models raised, and no other call has been made since
ListingRaised == Len(calls) = 1 /\ LastCallIs("listModels") /\ Raised(reply)

\* C5: when listModels raises, activate_all_models returns no report, the
\* error reaches main unmodified, no further remote call is ever issued, and
\* main prints the error message and nothing else.
C5_FatalCatalogFailure ==
    /\ [](ListingRaised =>
            /\ pc \in {"except", "done"}
            /\ exc = reply.kind
            /\ results = <<>>
            /\ activation_results = <<>>
            /\ stdout = IF pc = "done"
                        THEN <<[line |-> "error", error |-> reply.kind]>>
                        ELSE <<>>)
    /\ [][ListingRaised => calls' = calls /\ results' = <<>>]_vars

\* main has printed the error of a listing that raised ClientError
C5_Witness ==
    /\ ListingRaised
    /\ reply.kind = ClientError
    /\ pc = "done"
    /\ stdout = <<[line |-> "error", error |-> ClientError]>>

----------------------------------------------------------------------------
(* C6 *)

\* (accessible, needing) partitions models, each keeping the order of models
IsPartition(models, accessible, needing) ==
    /\ Range(accessible) \cup Range(needing) = Range(models)
    /\ Range(accessible) \cap Range(needing) = {}
    /\ Len(accessible) + Len(needing) = Len(models)
    /\ IsSubSeq(accessible, models)
    /\ IsSubSeq(needing, models)

\* C6: for every input with unique ids and every outcome of the availability
\* queries, check_model_access_status returns, and what it returns is a
\* partition of the input into two subsequences.
C6_PartitionCompleteness ==
    /\ ~(exc # "none" /\ LastCallIs("getAvailability"))
    /\ (pc \in {"loop", "agree", "print", "done"} /\ exc = "none") =>
          IsPartition(filtered_models, accessible_models, models_needing_access)

----------------------------------------------------------------------------
(* C7 *)

\* the availability query returned with status UNKNOWN or with no status
UncertainStatus ==
    /\ AvailabilityReturned
    /\ ReportedStatus(reply.response) \in {"UNKNOWN", "absent"}

\* C7 as claimed: a model whose availability query succeeds with status
\* UNKNOWN, or with no status, is placed in models_needing_access.
C7_UncertainIsRemediated ==
    UncertainStatus =>
        PlacedLastIn(models_needing_access) /\ ~PlacedIn(accessible_models)

\* C7 as amended: a model whose availability query succeeds with status
\* UNKNOWN, or with no status, is placed in accessible_models and not in
\* models_needing_access.
C7_UncertainIsAccessible ==
    UncertainStatus =>
        PlacedLastIn(accessible_models) /\ ~PlacedIn(models_needing_access)

\* a model reported UNKNOWN has just been classified accessible
C7_Witness ==
    /\ AvailabilityReturned
    /\ ReportedStatus(reply.response) = "UNKNOWN"
    /\ PlacedLastIn(accessible_models)

----------------------------------------------------------------------------
(* C8 *)

\* C8: an availability query that succeeds appends its model to
\* models_needing_access if the reported agreement status is NOT_AVAILABLE
\* and to accessible_models otherwise, whatever authorizationStatus is, and
\* leaves the models classified before where they are.
C8_DecisionRule ==
    [][(calls' # calls /\ LastCall'.op = "getAvailability" /\ reply'.kind = "ok") =>
         LET model == filtered_models[ci]
         IN  IF ReportedStatus(reply'.response) = "NOT_AVAILABLE"
             THEN /\ models_needing_access' = Append(models_needing_access, model)
                  /\ accessible_models' = accessible_models
             ELSE /\ accessible_models' = Append(accessible_models, model)
                  /\ models_needing_access' = models_needing_access
      ]_vars

\* an authorized model reported NOT_AVAILABLE has been placed in
\* models_needing_access after another model was classified accessible
C8_Witness ==
    /\ AvailabilityReturned
    /\ ReportedStatus(reply.response) = "NOT_AVAILABLE"
    /\ Get(reply.response, "authorizationStatus", "absent") = "AUTHORIZED"
    /\ PlacedLastIn(models_needing_access)
    /\ accessible_models # <<>>

----------------------------------------------------------------------------
(* C9 *)

\* C9: in every report returned, filtered_models = already_accessible +
\* attempted_activation.
C9_CounterConsistency ==
    results # <<>> =>
        results[1].filtered_models =
            results[1].already_accessible + results[1].attempted_activation

\* a report with an accessible model and a remediated one has been returned
C9_Witness ==
    /\ results # <<>>
    /\ results[1].already_accessible >= 1
    /\ results[1].attempted_activation >= 1

----------------------------------------------------------------------------
(* C10 *)

\* inferenceTypesSupported contains ON_DEMAND or INFERENCE_PROFILE
C10_Kept(model) ==
    /\ "inferenceTypesSupported" \in DOMAIN model
    /\ Range(model.inferenceTypesSupported) \cap {"ON_DEMAND", "INFERENCE_PROFILE"} # {}

\* C10: filter_on_demand_models returns a subsequence of its input, without
\* duplicates, that holds a model exactly if its inferenceTypesSupported
\* contains ON_DEMAND or INFERENCE_PROFILE.
C10_FilterPurity ==
    pc = "check" =>
        /\ IsSubSeq(filtered_models, all_models)
        /\ \A i \in 1..Len(all_models) :
              all_models[i] \in Range(filtered_models) <=> C10_Kept(all_models[i])
        /\ \A i, j \in 1..Len(filtered_models) :
              i # j => filtered_models[i] # filtered_models[j]

\* the filter has kept a model that supports INFERENCE_PROFILE but not
\* ON_DEMAND and dropped one without inferenceTypesSupported
C10_Witness ==
    /\ pc = "check"
    /\ Len(all_models) = 2
    /\ Len(filtered_models) = 1
    /\ filtered_models[1].inferenceTypesSupported = <<"PROVISIONED", "INFERENCE_PROFILE">>
    /\ \E i \in 1..2 : "inferenceTypesSupported" \notin DOMAIN all_models[i]

----------------------------------------------------------------------------
(* C11 *)

\* the catalog listing returned
ListingReturned == calls # <<>> /\ ~ListingRaised

\* the reason lines of a summary, in order
ReasonsPrinted ==
    SelectSeq(stdout, LAMBDA l : l.line = "reason")

\* C11: when the catalog listing succeeds, a run that has completed has
\* returned a report and printed the summary, with one detail line per
\* remediated model and the reason of every failure.
C11_Termination ==
    (pc = "done" /\ ListingReturned) =>
        /\ results # <<>>
        /\ stdout # <<>>
        /\ stdout[1].line = "title"
        /\ LET failures == SelectSeq(results[1].activation_details,
                                     LAMBDA d : d.status = "failed")
           IN  ReasonsPrinted =
                 [i \in 1..Len(failures) |->
                    [line |-> "reason", reason |-> failures[i].reason]]

----------------------------------------------------------------------------
(* C12 *)

\* the step issues the remote call `op`
Issues(op) == calls' # calls /\ LastCall'.op = op

\* C12: acceptOffer is issued only right after a listOffers call for the same
\* model that returned a non-empty list whose offer at index 0 has a
\* non-empty token, and its arguments are the id of the model of the current
\* iteration and that token.
C12_TokenFidelity ==
    [][Issues("acceptOffer") =>
         /\ LastCallIs("listOffers")
         /\ reply.kind = "ok"
         /\ "offers" \in DOMAIN reply.response
         /\ reply.response.offers # <<>>
         /\ "offerToken" \in DOMAIN reply.response.offers[1]
         /\ reply.response.offers[1].offerToken # ""
         /\ LastCall'.offerToken = reply.response.offers[1].offerToken
         /\ LastCall'.modelId = LastCall.modelId
         /\ LastCall'.modelId = models_needing_access[ri].modelId
      ]_vars

\* acceptOffer was issued for two models, each with its own token
C12_Witness ==
    /\ LastCallIs("acceptOffer")
    /\ LastCall.offerToken = "tok-b"
    /\ \E i \in 1..Len(calls) :
          /\ calls[i].op = "acceptOffer"
          /\ calls[i].modelId # LastCall.modelId
          /\ calls[i].offerToken = "tok-a"

----------------------------------------------------------------------------
(* C13 *)

\* how many times the log holds a call of `op` for the model `id`
CallCount(log, op, id) ==
    Cardinality({i \in 1..Len(log) : log[i].op = op /\ log[i].modelId = id})

\* C13: no call is issued twice for the same model; when the classifier loop
\* is left every filtered model has received exactly one availability query;
\* when the remediation loop is left every model of models_needing_access
\* has received exactly one listOffers call and at most one acceptOffer call.
C13_SingleAttempt ==
    /\ [](\A id \in ModelIds :
            \A op \in {"getAvailability", "listOffers", "acceptOffer"} :
                CallCount(calls, op, id) <= 1)
    /\ [][(pc = "check" /\ pc' # "check") =>
            \A i \in 1..Len(filtered_models) :
                CallCount(calls', "getAvailability", filtered_models[i].modelId) = 1
         ]_vars
    /\ [][(pc \in {"loop", "agree"} /\ pc' \in {"print", "except"}) =>
            \A i \in 1..Len(models_needing_access) :
                CallCount(calls', "listOffers", models_needing_access[i].modelId) = 1
         ]_vars

----------------------------------------------------------------------------
(* C14 *)

\* how many listOffers calls the log holds
OffersCalls == Cardinality({i \in 1..Len(calls) : calls[i].op = "listOffers"})

\* C14: listModels is the first call and the only one of its kind; no
\* availability query follows a listOffers or acceptOffer call; an
\* acceptOffer call directly follows the listOffers call of the same model;
\* and the k-th listOffers call is for the k-th model of
\* models_needing_access.
C14_StageOrdering ==
    /\ [](/\ \A i \in 1..Len(calls) : calls[i].op = "listModels" <=> i = 1
          /\ \A i, j \in 1..Len(calls) :
                (i < j /\ calls[i].op \in {"listOffers", "acceptOffer"})
                    => calls[j].op \in {"listOffers", "acceptOffer"}
          /\ \A i \in 1..Len(calls) :
                calls[i].op = "acceptOffer" =>
                    /\ i > 1
                    /\ calls[i - 1].op = "listOffers"
                    /\ calls[i - 1].modelId = calls[i].modelId)
    /\ [][Issues("listOffers") =>
            /\ OffersCalls < Len(models_needing_access)
            /\ LastCall'.modelId = models_needing_access[OffersCalls + 1].modelId
         ]_vars

\* two models were remediated one after the other, each with both calls
C14_Witness ==
    /\ Len(calls) = 7
    /\ [i \in 1..7 |-> calls[i].op] =
          <<"listModels", "getAvailability", "getAvailability",
            "listOffers", "acceptOffer", "listOffers", "acceptOffer">>
    /\ calls[4].modelId = 1
    /\ calls[6].modelId = 2

----------------------------------------------------------------------------
(* C15 *)

\* from report r to report q exactly one outcome was recorded
OneOutcomeRecorded(r, q) ==
    /\ \/ /\ q.successful_activations = r.successful_activations + 1
          /\ q.failed_activations = r.failed_activations
       \/ /\ q.failed_activations = r.failed_activations + 1
          /\ q.successful_activations = r.successful_activations
    /\ Len(q.activation_details) = Len(r.activation_details) + 1
    /\ SubSeq(q.activation_details, 1, Len(r.activation_details))
          = r.activation_details
    /\ q.total_models = r.total_models
    /\ q.filtered_models = r.filtered_models
    /\ q.already_accessible = r.already_accessible
    /\ q.attempted_activation = r.attempted_activation

\* C15: processing one model of models_needing_access (the listOffers call,
\* then the rest of the loop body) increments exactly one of
\* successful_activations and failed_activations by 1, appends exactly one
\* entry to activation_details, and leaves everything else in the report as
\* it was.
C15_RemediationFrame ==
    [][/\ (pc = "loop" /\ calls' # calls) =>
            pc' = "agree" /\ activation_results' = activation_results
       /\ pc = "agree" =>
            /\ activation_results' # <<>>
            /\ OneOutcomeRecorded(activation_results[1], activation_results'[1])
      ]_vars

----------------------------------------------------------------------------
(* C16 *)

\* the model with this id is in the catalog and the filter keeps it
KeptByFilter(id) ==
    /\ \E i \in 1..Len(all_models) : all_models[i].modelId = id
    /\ \A i \in 1..Len(all_models) :
          all_models[i].modelId = id => C10_Kept(all_models[i])

\* C16: a model whose availability query returns a status other than
\* NOT_AVAILABLE is put in accessible_models and stays there for as long as
\* calls are issued; and every listOffers and acceptOffer call is for a model
\* of models_needing_access, which the filter kept and which is not in
\* accessible_models.
C16_OnlyWhereNeeded ==
    /\ [][(Issues("getAvailability") /\ reply'.kind = "ok"
           /\ ReportedStatus(reply'.response) # "NOT_AVAILABLE")
            => filtered_models[ci] \in Range(accessible_models')]_vars
    /\ [][/\ calls' # calls => pc \in {"list", "check", "loop", "agree"}
          /\ pc' # "except" => Range(accessible_models) \subseteq Range(accessible_models')
         ]_vars
    /\ [][(Issues("listOffers") \/ Issues("acceptOffer")) =>
            /\ LastCall'.modelId \in Range(ModelIdsOf(models_needing_access))
            /\ LastCall'.modelId \in Range(ModelIdsOf(filtered_models))
            /\ LastCall'.modelId \notin Range(ModelIdsOf(accessible_models))
            /\ KeptByFilter(LastCall'.modelId)
         ]_vars

\* acceptOffer was issued for a model while another model is accessible
C16_Witness ==
    /\ LastCallIs("acceptOffer")
    /\ accessible_models # <<>>
    /\ LastCall.modelId \in Range(ModelIdsOf(models_needing_access))

====
